---- MODULE Spec2Model ----
(***************************************************************************)
(* Model of the upload backends (src/server.js and its variants            *)
(* src/unnamed/part_000 .. part_002): the Counter collection with          *)
(* getNextSequenceValue, and the create-Record / fetch request handlers.   *)
(*                                                                         *)
(* Two specifications share the variables:                                 *)
(*   SpecAlloc  concurrent callers of getNextSequenceValue(name)           *)
(*   Spec       concurrent HTTP requests against one deployed variant      *)
(***************************************************************************)
EXTENDS Integers, Sequences, FiniteSets, TLC

\* ------------------------------------------------------------------ bounds
NCallers == 2      \* concurrent callers of getNextSequenceValue
MaxCalls == 3      \* calls issued in a run, all callers together
MaxPrior == 1      \* largest counter value already stored before the run
NReq == 2          \* concurrent HTTP requests

Callers == 1..NCallers
Reqs == 1..NReq
Names == {"blog_id", "a"}

VARIABLES
  \* Document Store
  counters,    \* Counter collection: set of [_id, sequence_value] documents
  records,     \* every other collection: set of persisted Records
  \* Blob Store
  blobs,       \* requests whose image Cloudinary has stored
  \* callers of getNextSequenceValue (SpecAlloc)
  cpc,         \* position of each caller's current call
  cname,       \* sequenceName of the current call
  cres,        \* sequenceDocument.sequence_value of the current call (0: none)
  ncalls,      \* calls issued so far
  attempts,    \* findOneAndUpdate commands the current call has issued
  wrote,       \* writes to the Counter collection the current call committed
  delivered,   \* per name, the values returned to callers, in order of return
  prior,       \* per name, the value stored before the run (0: no document)
  seqOK,       \* per name, no two calls on it have overlapped so far
  \* HTTP requests (Spec)
  variant,     \* which server file is deployed
  pc,          \* position of each request
  req,         \* route and input of each request
  upload,      \* outcome of the request's Blob Store upload
  blog_id,     \* the handler's local blog_id (0: not allocated)
  fault,       \* the Document Store failure the request ran into
  matched,     \* GET: a Blog with the requested blog_id existed when findOne ran
  resp         \* the response sent: [status, body] (status 0: none)

allocVars == <<cpc, cname, cres, ncalls, attempts, wrote, delivered, prior, seqOK>>
httpVars == <<variant, pc, req, upload, blog_id, fault, matched, resp, records, blobs>>
vars == <<counters, allocVars, httpVars>>

\* ------------------------------------------------- Counter / allocator
\* counterSchema: _id is the name, sequence_value a Number
CounterDoc(name, v) == [_id |-> name, sequence_value |-> v]

\* the filter { _id: sequenceName }
Matching(docs, name) == {d \in docs : d._id = name}

\* stored value of a counter, absence counted as 0
Value(docs, name) ==
  IF Matching(docs, name) = {} THEN 0
  ELSE (CHOOSE d \in Matching(docs, name) : TRUE).sequence_value

\* mutants of FindOneAndUpdate
FindOneAndUpdateReturnsOld(docs, name) ==
  LET v == Value(docs, name)
      new == CounterDoc(name, v + 1)
  IN [docs |-> (docs \ Matching(docs, name)) \cup {new}, doc |-> CounterDoc(name, v)]

FindOneAndUpdateIncTwo(docs, name) ==
  LET new == CounterDoc(name, Value(docs, name) + 2)
  IN [docs |-> (docs \ Matching(docs, name)) \cup {new}, doc |-> new]

FindOneAndUpdateNoFilter(docs, name) ==
  LET new == CounterDoc(name, Value(docs, name) + 1)
  IN [docs |-> {[d EXCEPT !.sequence_value = @ + 1] : d \in docs \ Matching(docs, name)}
                 \cup {new},
      doc |-> new]

FindOneAndUpdateInserts(docs, name) ==
  LET new == CounterDoc(name, Value(docs, name) + 1)
  IN [docs |-> docs \cup {new}, doc |-> new]

\* Counter.findOneAndUpdate({_id: name}, {$inc: {sequence_value: 1}},
\*                          {new: true, upsert: true}): one atomic command;
\* gives the collection after it and the document it resolves to
FindOneAndUpdate(docs, name) ==
  IF Matching(docs, name) = {}
  THEN LET ins == CounterDoc(name, 1)                       \* upsert
       IN [docs |-> docs \cup {ins}, doc |-> ins]
  ELSE LET old == CHOOSE d \in Matching(docs, name) : TRUE
           new == [old EXCEPT !.sequence_value = @ + 1]     \* $inc
       IN [docs |-> (docs \ {old}) \cup {new}, doc |-> new] \* new: true

\* the collection after a findOneAndUpdate that rejects: the single command
\* is the only write of getNextSequenceValue, so nothing has been written
RejectedUpdate(docs, name) == docs

\* mutant of OnRejection: the allocator issues the command again
OnRejectionRetry == "awaiting"

\* getNextSequenceValue has no try/catch: the rejection of the awaited
\* command propagates to the caller
OnRejection == "failed"

\* a caller invokes getNextSequenceValue(name): the command is sent
Call(c, name) ==
  /\ cpc[c] \in {"idle", "returned", "failed"}
  /\ ncalls < MaxCalls
  /\ cpc' = [cpc EXCEPT ![c] = "awaiting"]
  /\ cname' = [cname EXCEPT ![c] = name]
  /\ cres' = [cres EXCEPT ![c] = 0]
  /\ ncalls' = ncalls + 1
  /\ attempts' = [attempts EXCEPT ![c] = 1]
  /\ wrote' = [wrote EXCEPT ![c] = 0]
  /\ seqOK' = [seqOK EXCEPT ![name] =
                 @ /\ ~\E o \in Callers \ {c} :
                        cname[o] = name /\ cpc[o] \in {"awaiting", "replied", "rejected"}]
  /\ UNCHANGED <<counters, delivered, prior, httpVars>>

\* the store executes the command
Commit(c) ==
  /\ cpc[c] = "awaiting"
  /\ LET r == FindOneAndUpdate(counters, cname[c])
     IN /\ counters' = r.docs
        /\ cres' = [cres EXCEPT ![c] = r.doc.sequence_value]
        /\ wrote' = [wrote EXCEPT ![c] = @ + (IF r.docs # counters THEN 1 ELSE 0)]
  /\ cpc' = [cpc EXCEPT ![c] = "replied"]
  /\ UNCHANGED <<cname, ncalls, attempts, delivered, prior, seqOK, httpVars>>

\* the store cannot execute the command (unavailable, timeout): it rejects
Reject(c) ==
  /\ cpc[c] = "awaiting"
  /\ counters' = RejectedUpdate(counters, cname[c])
  /\ wrote' = [wrote EXCEPT ![c] = @ + (IF counters' # counters THEN 1 ELSE 0)]
  /\ cpc' = [cpc EXCEPT ![c] = "rejected"]
  /\ UNCHANGED <<cname, cres, ncalls, attempts, delivered, prior, seqOK, httpVars>>

\* the await resumes: return sequenceDocument.sequence_value
Return(c) ==
  /\ cpc[c] = "replied"
  /\ cpc' = [cpc EXCEPT ![c] = "returned"]
  /\ delivered' = [delivered EXCEPT ![cname[c]] = Append(@, cres[c])]
  /\ UNCHANGED <<counters, cname, cres, ncalls, attempts, wrote, prior, seqOK, httpVars>>

\* the await throws
Throw(c) ==
  /\ cpc[c] = "rejected"
  /\ cpc' = [cpc EXCEPT ![c] = OnRejection]
  /\ attempts' = [attempts EXCEPT ![c] = IF OnRejection = "awaiting" THEN @ + 1 ELSE @]
  /\ UNCHANGED <<counters, cname, cres, ncalls, wrote, delivered, prior, seqOK, httpVars>>

\* ------------------------------------------------------- HTTP routes
Variants == {"server", "part_000", "part_001", "part_002"}

\* a route: the middleware and handler registered for one method and path
\*   storage   multer storage: "memory" (the handler uploads with
\*             upload_stream and saves in its callback), "cloudinary" (the
\*             middleware uploads before the handler runs), "none"
\*   guarded   the handler body is inside try/catch
\*   checks    the presence checks answered with 400, in order
\*   fields    the body fields the handler reads
\*   required  the schema paths declared required: true
\*   dateField the field passed through new Date() into a Date path
\*   counter   the handler calls getNextSequenceValue("blog_id")
\*   okStatus, okBody   the success response
CarouselServer ==
  [variant |-> "server", path |-> "POST /api/carousel", kind |-> "carousel",
   storage |-> "memory", guarded |-> TRUE, checks |-> <<"file">>,
   fields |-> {"link"}, required |-> {}, dateField |-> "",
   counter |-> FALSE, okStatus |-> 200, okBody |-> "record"]

BlogServer ==
  [variant |-> "server", path |-> "POST /api/blogs", kind |-> "blog",
   storage |-> "cloudinary", guarded |-> TRUE, checks |-> <<"file">>,
   fields |-> {"blog_title", "blog_description"}, required |-> {}, dateField |-> "",
   counter |-> TRUE, okStatus |-> 201, okBody |-> "record"]

EventsServer ==
  [variant |-> "server", path |-> "POST /api/events", kind |-> "event",
   storage |-> "cloudinary", guarded |-> TRUE, checks |-> <<"event_date", "file">>,
   fields |-> {"event_date"}, required |-> {"event_date", "event_image"},
   dateField |-> "event_date",
   counter |-> FALSE, okStatus |-> 201, okBody |-> "record"]

GetBlogServer ==
  [variant |-> "server", path |-> "GET /api/blogs/:blog_id", kind |-> "getBlog",
   storage |-> "none", guarded |-> TRUE, checks |-> <<>>,
   fields |-> {}, required |-> {}, dateField |-> "",
   counter |-> FALSE, okStatus |-> 200, okBody |-> "record"]

Carousel000 == [CarouselServer EXCEPT !.variant = "part_000"]

Blog000 == [BlogServer EXCEPT !.variant = "part_000"]

GetBlog000 == [GetBlogServer EXCEPT !.variant = "part_000"]

Music000 ==
  [variant |-> "part_000", path |-> "POST /api/music", kind |-> "song",
   storage |-> "cloudinary", guarded |-> TRUE, checks |-> <<"file">>,
   fields |-> {"title", "purchaseLink", "streamLink"},
   required |-> {"image", "title", "purchaseLink", "streamLink"}, dateField |-> "",
   counter |-> FALSE, okStatus |-> 201, okBody |-> "wrapped"]

Album000 == [Music000 EXCEPT !.path = "POST /api/album", !.kind = "album"]

Feature000 == [Music000 EXCEPT !.path = "POST /api/feature", !.kind = "feature"]

Upload001 ==
  [variant |-> "part_001", path |-> "POST /api/upload", kind |-> "event",
   storage |-> "cloudinary", guarded |-> TRUE, checks |-> <<"date">>,
   fields |-> {"date"}, required |-> {"imageUrl", "date"}, dateField |-> "date",
   counter |-> FALSE, okStatus |-> 201, okBody |-> "record"]

Blog001 ==
  [variant |-> "part_001", path |-> "POST /api/blogs", kind |-> "blog",
   storage |-> "cloudinary", guarded |-> FALSE, checks |-> <<>>,
   fields |-> {"blog_title", "blog_description"}, required |-> {}, dateField |-> "",
   counter |-> TRUE, okStatus |-> 201, okBody |-> "record"]

GetBlog001 == [GetBlogServer EXCEPT !.variant = "part_001"]

Carousel002 ==
  [variant |-> "part_002", path |-> "POST /api/carousel", kind |-> "carousel",
   storage |-> "memory", guarded |-> TRUE, checks |-> <<"file", "link">>,
   fields |-> {"link"}, required |-> {}, dateField |-> "",
   counter |-> FALSE, okStatus |-> 200, okBody |-> "record"]

Upload002 ==
  [variant |-> "part_002", path |-> "POST /api/upload", kind |-> "event",
   storage |-> "memory", guarded |-> TRUE, checks |-> <<"file", "date">>,
   fields |-> {"date"}, required |-> {}, dateField |-> "date",
   counter |-> FALSE, okStatus |-> 201, okBody |-> "record"]

Blog002 == [BlogServer EXCEPT !.variant = "part_002"]

GetBlog002 == [GetBlogServer EXCEPT !.variant = "part_002"]

Routes ==
  {CarouselServer, BlogServer, EventsServer, GetBlogServer,
   Carousel000, Blog000, GetBlog000, Music000, Album000, Feature000,
   Upload001, Blog001, GetBlog001,
   Carousel002, Upload002, Blog002, GetBlog002}

\* ---------------------------------------------------------- inputs
Digits == {"1", "2"}

\* the :blog_id path segment: a non-empty string, here of digits and letters
Params == {<<"1">>, <<"2">>, <<"1", "2">>, <<"x">>, <<"1", "x">>}

DigitValue(ch) == IF ch = "1" THEN 1 ELSE 2

RECURSIVE Decimal(_)
Decimal(s) == IF s = <<>> THEN 0
              ELSE 10 * Decimal(SubSeq(s, 1, Len(s) - 1)) + DigitValue(s[Len(s)])

\* mongoose casts the filter value of the Number path blog_id: a numeric
\* string becomes its number, any other string is a CastError
CastNumber(s) ==
  IF \A i \in 1..Len(s) : s[i] \in Digits
  THEN [ok |-> TRUE, value |-> Decimal(s)]
  ELSE [ok |-> FALSE, value |-> 0]

NoInput == [path |-> "", file |-> FALSE, body |-> {}, dateOk |-> TRUE, param |-> <<>>]

\* request bodies: every field present, or exactly one of them missing
Bodies(fields) == {fields} \cup {fields \ {f} : f \in fields}

\* the requests a client can send to a route
Inputs(route) ==
  IF route.kind = "getBlog"
  THEN [path : {route.path}, file : {FALSE}, body : {{}}, dateOk : {TRUE}, param : Params]
  ELSE {i \in [path : {route.path}, file : BOOLEAN, body : Bodies(route.fields),
               dateOk : BOOLEAN, param : {<<>>}] :
          i.dateOk \/ route.dateField \in i.body}

\* ---------------------------------------------------------- responses
NoResponse == [status |-> 0, body |-> "none"]

\* res.status(s).json({message | error: ...})
JsonError(s) == [status |-> s, body |-> "message"]

\* no error middleware is registered: express's default error handler
\* answers next(err) with status 500 and an HTML page
ExpressDefaultError == [status |-> 500, body |-> "html"]

Hung == [pc |-> "hung", resp |-> NoResponse]

Answered(response) == [pc |-> "done", resp |-> response]

\* what becomes of an exception or rejected await in a handler:
\*  - inside the upload_stream callback (an async function cloudinary
\*    calls after the handler's try block has been left): nothing catches
\*    it, no response is sent;
\*  - inside try/catch: the catch block answers 500 with a JSON error;
\*  - in the handler without try/catch: express 4 does not observe the
\*    rejected promise (no response), express 5 passes it to next(err)
Thrown(route, inCallback) ==
  IF inCallback THEN {Hung}
  ELSE IF route.guarded THEN {Answered(JsonError(500))}
  ELSE {Hung, Answered(ExpressDefaultError)}

\* the request ends its current step with outcome o
Finish(r, o) ==
  /\ pc' = [pc EXCEPT ![r] = o.pc]
  /\ resp' = [resp EXCEPT ![r] = o.resp]

\* ---------------------------------------------------------- handlers
Present(i, what) == IF what = "file" THEN i.file ELSE what \in i.body

\* the presence checks that fail, by position in the handler
FailedChecks(route, i) == {k \in 1..Len(route.checks) : ~Present(i, route.checks[k])}

\* mongoose validation run by save(): every required path of the schema
\* that comes from the body is set, and the Date path holds a valid date
Validates(route, i) ==
  /\ \A f \in route.required \cap route.fields : f \in i.body
  /\ route.dateField # "" => (route.dateField \in i.body /\ i.dateOk)

\* the route a request was sent to
RouteOf(r) == CHOOSE route \in Routes : route.variant = variant /\ route.path = req[r].path

\* mutant of NewRecord: blog_id is not passed to the document
NewRecordWithoutId(r) ==
  [_id |-> r, kind |-> RouteOf(r).kind, url |-> r, body |-> req[r].body, blog_id |-> 0]

\* the document the handler builds
NewRecord(r) ==
  [_id |-> r, kind |-> RouteOf(r).kind, url |-> r, body |-> req[r].body,
   blog_id |-> blog_id[r]]

Blogs == {rec \in records : rec.kind = "blog"}

\* a request reaches the server; requests are numbered in order of arrival
Arrive(r) ==
  /\ pc[r] = "new"
  /\ \A o \in Reqs : o < r => pc[o] # "new"
  /\ \E route \in Routes :
       /\ route.variant = variant
       /\ \E i \in Inputs(route) :
            /\ req' = [req EXCEPT ![r] = i]
            /\ pc' = [pc EXCEPT ![r] =
                        IF route.kind = "getBlog" THEN "finding" ELSE "middleware"]
  /\ UNCHANGED <<counters, allocVars, variant, upload, blog_id, fault, matched, resp,
                 records, blobs>>

\* multer with CloudinaryStorage: the file is uploaded before the handler
\* runs; a failed upload goes to next(err)
MulterOutcome(ok) ==
  IF ok THEN [pc |-> "handler", resp |-> NoResponse] ELSE Answered(ExpressDefaultError)

\* upload.single(...) / uploadCloudinary.single(...)
Multer(r) ==
  /\ pc[r] = "middleware"
  /\ IF RouteOf(r).storage = "cloudinary" /\ req[r].file
     THEN \E ok \in BOOLEAN :
            /\ upload' = [upload EXCEPT ![r] = IF ok THEN "ok" ELSE "failed"]
            /\ blobs' = IF ok THEN blobs \cup {r} ELSE blobs
            /\ Finish(r, MulterOutcome(ok))
     ELSE /\ pc' = [pc EXCEPT ![r] = "handler"]   \* memoryStorage, or no file part
          /\ UNCHANGED <<upload, blobs, resp>>
  /\ UNCHANGED <<counters, allocVars, variant, req, blog_id, fault, matched, records>>

\* mutant of Handler: the blog handler allocates before it looks at req.file
HandlerAllocatesFirst(r) ==
  /\ pc[r] = "handler"
  /\ LET i == req[r]
         route == RouteOf(r)
     IN IF route.counter
        THEN pc' = [pc EXCEPT ![r] = "allocating"] /\ UNCHANGED resp
        ELSE IF FailedChecks(route, i) # {}
        THEN Finish(r, Answered(JsonError(400)))
        ELSE IF ~i.file
        THEN \E o \in Thrown(route, FALSE) : Finish(r, o)
        ELSE /\ pc' = [pc EXCEPT ![r] =
                         IF route.storage = "memory" THEN "uploading" ELSE "saving"]
             /\ UNCHANGED resp
  /\ UNCHANGED <<counters, allocVars, variant, req, upload, blog_id, fault, matched,
                 records, blobs>>

\* the handler up to its first await or asynchronous call
Handler(r) ==
  /\ pc[r] = "handler"
  /\ LET i == req[r]
         route == RouteOf(r)
     IN IF FailedChecks(route, i) # {}
        THEN Finish(r, Answered(JsonError(400)))
        ELSE IF ~i.file                            \* req.file.path of undefined
        THEN \E o \in Thrown(route, FALSE) : Finish(r, o)
        ELSE /\ pc' = [pc EXCEPT ![r] =
                         IF route.storage = "memory" THEN "uploading"
                         ELSE IF route.counter THEN "allocating"
                         ELSE "saving"]
             /\ UNCHANGED resp
  /\ UNCHANGED <<counters, allocVars, variant, req, upload, blog_id, fault, matched,
                 records, blobs>>

\* mutant of UploadCallback: the callback does not look at error
UploadCallbackIgnoresError(ok) == [pc |-> "saving", resp |-> NoResponse]

\* the callback given to cloudinary.uploader.upload_stream:
\* if (error) return res.status(500).json({message: "Upload failed"})
UploadCallback(ok) ==
  IF ok THEN [pc |-> "saving", resp |-> NoResponse] ELSE Answered(JsonError(500))

\* cloudinary finishes the streamed upload and calls the callback
UploadStream(r) ==
  /\ pc[r] = "uploading"
  /\ \E ok \in BOOLEAN :
       /\ upload' = [upload EXCEPT ![r] = IF ok THEN "ok" ELSE "failed"]
       /\ blobs' = IF ok THEN blobs \cup {r} ELSE blobs
       /\ Finish(r, UploadCallback(ok))
  /\ UNCHANGED <<counters, allocVars, variant, req, blog_id, fault, matched, records>>

\* const blog_id = await getNextSequenceValue("blog_id")
Allocate(r) ==
  /\ pc[r] = "allocating"
  /\ \/ LET res == FindOneAndUpdate(counters, "blog_id")
        IN /\ counters' = res.docs
           /\ blog_id' = [blog_id EXCEPT ![r] = res.doc.sequence_value]
           /\ pc' = [pc EXCEPT ![r] = "saving"]
           /\ UNCHANGED <<fault, resp>>
     \/ /\ counters' = RejectedUpdate(counters, "blog_id")
        /\ fault' = [fault EXCEPT ![r] = "counter"]
        /\ \E o \in Thrown(RouteOf(r), FALSE) : Finish(r, o)
        /\ UNCHANGED blog_id
  /\ UNCHANGED <<allocVars, variant, req, upload, matched, records, blobs>>

\* mutant of Save: a failed save gives the allocated value back
SaveRollsBack(r) ==
  /\ pc[r] = "saving"
  /\ LET i == req[r]
         route == RouteOf(r)
         inCallback == route.storage = "memory"
     IN IF ~Validates(route, i)
        THEN /\ fault' = [fault EXCEPT ![r] = "validation"]
             /\ \E o \in Thrown(route, inCallback) : Finish(r, o)
             /\ UNCHANGED <<records, counters>>
        ELSE \/ /\ ~(route.kind = "blog" /\ \E b \in Blogs : b.blog_id = blog_id[r])
                /\ records' = records \cup {NewRecord(r)}
                /\ Finish(r, Answered([status |-> route.okStatus, body |-> route.okBody]))
                /\ UNCHANGED <<fault, counters>>
             \/ /\ fault' = [fault EXCEPT ![r] = "save"]
                /\ \E o \in Thrown(route, inCallback) : Finish(r, o)
                /\ counters' = IF route.counter
                               THEN {CounterDoc(d._id, d.sequence_value - 1) : d \in counters}
                               ELSE counters
                /\ UNCHANGED records
  /\ UNCHANGED <<allocVars, variant, req, upload, blog_id, matched, blobs>>

\* await doc.save(), then the success response
Save(r) ==
  /\ pc[r] = "saving"
  /\ LET i == req[r]
         route == RouteOf(r)
         inCallback == route.storage = "memory"
     IN IF ~Validates(route, i)
        THEN /\ fault' = [fault EXCEPT ![r] = "validation"]
             /\ \E o \in Thrown(route, inCallback) : Finish(r, o)
             /\ UNCHANGED records
        ELSE IF route.kind = "blog" /\ \E b \in Blogs : b.blog_id = blog_id[r]
        THEN /\ fault' = [fault EXCEPT ![r] = "duplicate"]   \* unique index on blog_id
             /\ \E o \in Thrown(route, inCallback) : Finish(r, o)
             /\ UNCHANGED records
        ELSE \/ /\ records' = records \cup {NewRecord(r)}
                /\ Finish(r, Answered([status |-> route.okStatus, body |-> route.okBody]))
                /\ UNCHANGED fault
             \/ /\ fault' = [fault EXCEPT ![r] = "save"]
                /\ \E o \in Thrown(route, inCallback) : Finish(r, o)
                /\ UNCHANGED records
  /\ UNCHANGED <<counters, allocVars, variant, req, upload, blog_id, matched, blobs>>

\* GET /api/blogs/:blog_id: await Blog.findOne({blog_id: req.params.blog_id})
FindOne(r) ==
  /\ pc[r] = "finding"
  /\ LET n == CastNumber(req[r].param)
         hit == {b \in Blogs : n.ok /\ b.blog_id = n.value}
     IN /\ matched' = [matched EXCEPT ![r] = hit # {}]
        /\ IF ~n.ok
           THEN /\ Finish(r, Answered(JsonError(500)))     \* CastError, caught
                /\ UNCHANGED fault
           ELSE \/ /\ Finish(r, Answered(IF hit = {} THEN JsonError(404)
                                         ELSE [status |-> 200, body |-> "record"]))
                   /\ UNCHANGED fault
                \/ /\ fault' = [fault EXCEPT ![r] = "find"]
                   /\ Finish(r, Answered(JsonError(500)))
  /\ UNCHANGED <<counters, allocVars, variant, req, upload, blog_id, records, blobs>>

\* ------------------------------------------------------ specifications
IdleCallers ==
  /\ cpc = [c \in Callers |-> "idle"]
  /\ cname = [c \in Callers |-> "blog_id"]
  /\ cres = [c \in Callers |-> 0]
  /\ ncalls = 0
  /\ attempts = [c \in Callers |-> 0]
  /\ wrote = [c \in Callers |-> 0]
  /\ delivered = [n \in Names |-> <<>>]
  /\ seqOK = [n \in Names |-> TRUE]

NoRequests ==
  /\ pc = [r \in Reqs |-> "new"]
  /\ req = [r \in Reqs |-> NoInput]
  /\ upload = [r \in Reqs |-> "none"]
  /\ blog_id = [r \in Reqs |-> 0]
  /\ fault = [r \in Reqs |-> "none"]
  /\ matched = [r \in Reqs |-> FALSE]
  /\ resp = [r \in Reqs |-> NoResponse]
  /\ records = {}
  /\ blobs = {}

\* a deployed variant with an empty database
Init ==
  /\ variant \in Variants
  /\ counters = {}
  /\ prior = [n \in Names |-> 0]
  /\ IdleCallers
  /\ NoRequests

Next ==
  \E r \in Reqs :
    \/ Arrive(r)
    \/ Multer(r)
    \/ Handler(r)
    \/ UploadStream(r)
    \/ Allocate(r)
    \/ Save(r)
    \/ FindOne(r)

Spec == Init /\ [][Next]_vars

\* the allocator alone; each counter is absent or holds an earlier value
InitAlloc ==
  /\ variant = "server"
  /\ prior \in [Names -> 0..MaxPrior]
  /\ counters = {CounterDoc(n, prior[n]) : n \in {m \in Names : prior[m] > 0}}
  /\ IdleCallers
  /\ NoRequests

NextAlloc ==
  \E c \in Callers :
    \/ \E name \in Names : Call(c, name)
    \/ Commit(c)
    \/ Reject(c)
    \/ Return(c)
    \/ Throw(c)

SpecAlloc == InitAlloc /\ [][NextAlloc]_vars

\* ------------------------------------------------- claims: allocator
\* calls on name whose command has committed and whose value is still on
\* its way back to the caller
InFlight(name) == {c \in Callers : cname[c] = name /\ cpc[c] = "replied"}

\* successful calls on name so far
Succeeded(name) == Len(delivered[name]) + Cardinality(InFlight(name))

\* how many successful calls on name received the value v
Times(name, v) ==
  Cardinality({i \in 1..Len(delivered[name]) : delivered[name][i] = v})
  + Cardinality({c \in InFlight(name) : cres[c] = v})

\* C1: for every name with prior value k and n successful calls, in any
\* interleaving, each of k+1 .. k+n went to exactly one call, no other
\* value went to any call, and the stored value is k+n (no lost update).
C1_ExactlyOnce ==
  \A name \in Names :
    LET k == prior[name]
        n == Succeeded(name)
    IN /\ \A v \in 0..(k + n + 2) : Times(name, v) = IF k < v /\ v <= k + n THEN 1 ELSE 0
       /\ \A i \in 1..Len(delivered[name]) : delivered[name][i] \in (k + 1)..(k + n)
       /\ \A c \in InFlight(name) : cres[c] \in (k + 1)..(k + n)
       /\ Value(counters, name) = k + n

\* two overlapping calls on a counter holding 1: the later commit returned first
C1_Witness == prior["blog_id"] = 1 /\ delivered["blog_id"] = <<3, 2>>

\* C2: while the calls on a name have not overlapped, the i-th value
\* returned for it is the prior value plus i (1, then 2, on a fresh counter).
C2_Sequential ==
  \A name \in Names :
    seqOK[name] =>
      \A i \in 1..Len(delivered[name]) : delivered[name][i] = prior[name] + i

C2_Witness ==
  seqOK["blog_id"] /\ prior["blog_id"] = 0 /\ delivered["blog_id"] = <<1, 2>>

\* C3: the step in which the store answers a call on name a (committing or
\* rejecting it) leaves the document of every other name b unchanged.
C3_Independent ==
  [][\A c \in Callers :
       (cpc[c] = "awaiting" /\ cpc'[c] # "awaiting") =>
         \A b \in Names \ {cname[c]} : Matching(counters', b) = Matching(counters, b)]_vars

\* two values allocated for "a" while "blog_id" still holds its prior 1
C3_Witness ==
  /\ prior["blog_id"] = 1
  /\ counters = {CounterDoc("blog_id", 1), CounterDoc("a", prior["a"] + 2)}
  /\ Len(delivered["a"]) = 2

\* C4: a call that failed has written nothing to the Counter collection and
\* has issued its command once.
C4_AllOrNothing ==
  \A c \in Callers :
    cpc[c] \in {"rejected", "failed"} => wrote[c] = 0 /\ attempts[c] = 1

\* a failed first allocation: the counter is still absent
C4_Witness ==
  \E c \in Callers :
    /\ cpc[c] = "failed"
    /\ prior[cname[c]] = 0
    /\ delivered[cname[c]] = <<>>
    /\ InFlight(cname[c]) = {}
    /\ Matching(counters, cname[c]) = {}

\* C5: there is never more than one Counter document per name, and the
\* commit of an allocation on an absent name leaves exactly the document
\* with value 1 and resolves to 1.
C5_OneDocPerName ==
  /\ [](\A name \in Names : Cardinality(Matching(counters, name)) <= 1)
  /\ [][\A c \in Callers :
          (cpc[c] = "awaiting" /\ cpc'[c] = "replied"
             /\ Matching(counters, cname[c]) = {}) =>
            /\ Matching(counters', cname[c]) = {CounterDoc(cname[c], 1)}
            /\ cres'[c] = 1]_vars

\* two concurrent first allocations on "a": one document, values 1 and 2
C5_Witness ==
  /\ prior["a"] = 0
  /\ \E c, d \in Callers :
       /\ c # d
       /\ cname[c] = "a" /\ cname[d] = "a"
       /\ cpc[c] = "replied" /\ cpc[d] = "replied"
       /\ cres[c] = 1 /\ cres[d] = 2
  /\ ncalls = 2
  /\ Matching(counters, "a") = {CounterDoc("a", 2)}

\* ----------------------------------------------------- claims: requests
Creates(r) == pc[r] # "new" /\ RouteOf(r).kind # "getBlog"

\* the handler has nothing left to run
Ended(r) == pc[r] \in {"done", "hung"}

PersistedBy(r) == {rec \in records : rec._id = r}

\* C6: a create request whose Blob Store upload failed has been answered
\* with an error status and has persisted no Record; every persisted Record
\* belongs to a request whose upload succeeded (so a Blob Store that always
\* fails leaves zero Records).
C6_UploadFailure ==
  /\ \A r \in Reqs :
       upload[r] = "failed" =>
         /\ pc[r] = "done"
         /\ resp[r].status \in 400..599
         /\ PersistedBy(r) = {}
  /\ \A rec \in records : upload[rec._id] = "ok"
  /\ blobs = {} => records = {}

\* part_002: a carousel upload (upload_stream) and a blog upload (multer
\* middleware) have both failed
C6_Witness ==
  /\ records = {}
  /\ \E r, o \in Reqs :
       /\ upload[r] = "failed" /\ pc[r] # "new" /\ RouteOf(r) = Carousel002
       /\ upload[o] = "failed" /\ pc[o] # "new" /\ RouteOf(o) = Blog002

\* what a create request must carry: the file, the fields the handler
\* checks and the body fields the schema requires
RequiredInputs(route) ==
  {"file"} \cup {route.checks[k] : k \in 1..Len(route.checks)}
           \cup (route.required \cap route.fields)

Lacking(route, i) == \E w \in RequiredInputs(route) : ~Present(i, w)

\* C7: a create request that lacks a required field or the file (and met
\* no Blob Store or Document Store failure) ends answered with a 4xx status
\* and a JSON error message.
C7_Rejected4xx ==
  \A r \in Reqs :
    (Creates(r) /\ Ended(r) /\ Lacking(RouteOf(r), req[r]) /\ upload[r] # "failed"
       /\ fault[r] \in {"none", "validation"}) =>
      resp[r].status \in 400..499 /\ resp[r].body = "message"

\* C8: a create request answered 4xx has uploaded no blob, persisted no
\* Record and allocated no counter value.
C8_NoSideEffects ==
  \A r \in Reqs :
    (Creates(r) /\ pc[r] = "done" /\ resp[r].status \in 400..499) =>
      r \notin blobs /\ PersistedBy(r) = {} /\ blog_id[r] = 0

\* C9: a create request whose upload succeeded and whose Document Store
\* write (counter update or record save) failed ends answered with a 5xx
\* status.
C9_PersistFailure5xx ==
  \A r \in Reqs :
    (Creates(r) /\ Ended(r) /\ upload[r] = "ok" /\ fault[r] \in {"counter", "save"}) =>
      resp[r].status \in 500..599

\* C10: GET /api/blogs/:blog_id for an identifier no Blog record carries
\* (the store itself being available) is answered 404.
C10_NotFound ==
  \A r \in Reqs :
    (pc[r] = "done" /\ RouteOf(r).kind = "getBlog" /\ ~matched[r]
       /\ fault[r] = "none") =>
      resp[r] = JsonError(404)

\* ------------------------------------------------ claims: blog records
BlogRequest(r) == pc[r] # "new" /\ RouteOf(r).kind = "blog"

\* requests that have received a value from getNextSequenceValue("blog_id")
Allocated == {r \in Reqs : blog_id[r] > 0}

\* C11: a blog creation answered 201 has persisted exactly one Blog record;
\* it carries the value the allocator returned to the handler as blog_id, the
\* title and description of the request and the url of the request's own
\* upload; on a counter that has been incremented once that blog_id is 1.
C11_BlogRecord ==
  \A r \in Reqs :
    (BlogRequest(r) /\ pc[r] = "done" /\ resp[r].status = 201) =>
      /\ r \in blobs
      /\ blog_id[r] >= 1
      /\ PersistedBy(r) = {[_id |-> r, kind |-> "blog", url |-> r,
                            body |-> req[r].body, blog_id |-> blog_id[r]]}
      /\ Value(counters, "blog_id") = 1 => blog_id[r] = 1

\* title "T" and description "D" sent with an image: stored with blog_id 1
C11_Witness ==
  \E r \in Reqs :
    /\ BlogRequest(r) /\ pc[r] = "done" /\ resp[r].status = 201
    /\ req[r].body = {"blog_title", "blog_description"}
    /\ records = {[_id |-> r, kind |-> "blog", url |-> r,
                   body |-> {"blog_title", "blog_description"}, blog_id |-> 1]}

\* C12: a create request that persisted its Record is answered 201 with the
\* Record in a JSON body (bare, or wrapped in {message, song}).
C12_Created201 ==
  \A r \in Reqs :
    (Creates(r) /\ pc[r] = "done" /\ PersistedBy(r) # {}) =>
      resp[r].status = 201 /\ resp[r].body \in {"record", "wrapped"}

\* C13: in a blog creation the counter is incremented only after the upload
\* succeeded and the record is written only after the increment: every
\* request holding an allocated value has its blob stored, every Blog record
\* belongs to a request holding an allocated value, and the counter counts
\* exactly those requests (a request without a stored blob never changed it).
C13_UploadAllocatePersist ==
  /\ \A r \in Allocated : BlogRequest(r) /\ upload[r] = "ok" /\ r \in blobs
  /\ \A b \in Blogs : b._id \in Allocated
  /\ \A r \in Reqs : pc[r] \in {"allocating", "saving"} /\ BlogRequest(r) => upload[r] = "ok"
  /\ Value(counters, "blog_id") = Cardinality(Allocated)

\* one blog creation ended by a failed upload, one without file, next to a
\* successful one: the counter stands at 1
C13_Witness ==
  \E r, o \in Reqs :
    /\ BlogRequest(r) /\ Ended(r) /\ (upload[r] = "failed" \/ ~req[r].file)
    /\ BlogRequest(o) /\ PersistedBy(o) # {} /\ blog_id[o] = 1
    /\ Value(counters, "blog_id") = 1

\* a blog creation that ended after its allocation without a record
Abandoned(r) == BlogRequest(r) /\ Ended(r) /\ blog_id[r] > 0 /\ PersistedBy(r) = {}

\* C14: no step lowers a counter's stored value; a blog creation that failed
\* after its allocation keeps its value consumed: the counter has not gone
\* below it, no Blog record carries it and no other request received it.
C14_NoRollback ==
  /\ [][\A name \in Names : Value(counters', name) >= Value(counters, name)]_vars
  /\ [](\A r \in Reqs :
          Abandoned(r) =>
            /\ Value(counters, "blog_id") >= blog_id[r]
            /\ \A b \in Blogs : b.blog_id # blog_id[r]
            /\ \A o \in Reqs \ {r} : blog_id[o] # blog_id[r])

\* blog.save failed for the request holding 1; a later creation stored 2
C14_Witness ==
  \E r, o \in Reqs :
    /\ Abandoned(r) /\ fault[r] = "save" /\ blog_id[r] = 1
    /\ BlogRequest(o) /\ PersistedBy(o) # {} /\ blog_id[o] = 2
    /\ Value(counters, "blog_id") = 2

\* C15: the persisted Blog records have pairwise distinct blog_id values,
\* each between 1 and the stored value of the "blog_id" counter.
C15_DistinctBlogIds ==
  /\ \A b, c \in Blogs : b # c => b.blog_id # c.blog_id
  /\ \A b \in Blogs : 1 <= b.blog_id /\ b.blog_id <= Value(counters, "blog_id")

\* two concurrent creations: the request that arrived second allocated first
C15_Witness ==
  {[_id |-> b._id, blog_id |-> b.blog_id] : b \in Blogs}
    = {[_id |-> 1, blog_id |-> 2], [_id |-> 2, blog_id |-> 1]}

====
